---------------------------- MODULE Spec2Model ----------------------------
(***************************************************************************)
(* A model of src/primitives/block.h: the block header record CBlockHeader,*)
(* the block CBlock (header + transactions + fruits), the fruit-hash fold  *)
(* CBlock::GetFruitsHash and the chain locator CBlockLocator, together     *)
(* with their byte encodings.                                              *)
(*                                                                         *)
(* Bytes are integers 0..255 and a stream is a sequence of bytes.          *)
(* A uint256 is a record: [raw |-> <<32 bytes>>] for a value given by its  *)
(* bytes, or [pre |-> <<chunks>>] for the output of the digest primitive   *)
(* on the concatenation of the chunks (the primitive is external to the    *)
(* file and is modelled as a collision-free symbolic function).            *)
(* 32-bit fields are model integers; the unsigned ones are kept below 2^31.*)
(***************************************************************************)
EXTENDS Integers, Sequences, FiniteSets, TLC

VARIABLES
    hdr,      \* a CBlockHeader object
    blk,      \* a CBlock object
    loc,      \* a CBlockLocator object
    stream,   \* the bytes held by the data stream
    op,       \* the operation that ran last
    ret,      \* what the last operation returned (or its outcome)
    snap      \* what the last operation was given (kept to state the claims)

vars == <<hdr, blk, loc, stream, op, ret, snap>>

-----------------------------------------------------------------------------
(* Bounds of the exploration *)

MaxFruits == 2      \* longest vfrt built
MaxTx == 1          \* longest vtx built
MaxHave == 2        \* longest vHave built

-----------------------------------------------------------------------------
(* Sequences of bytes *)

RECURSIVE Flatten(_)
Flatten(ss) == IF ss = <<>> THEN <<>> ELSE Head(ss) \o Flatten(Tail(ss))

Repeat(b, n) == [i \in 1..n |-> b]

-----------------------------------------------------------------------------
(* uint256 *)

WIDTH == 32

Raw(bytes) == [raw |-> bytes]

\* uint256() and uint256::SetNull(): all bytes zero
ZeroDigest == Raw(Repeat(0, WIDTH))

\* a sample non-zero value whose bytes all differ
Digest(k) == Raw([i \in 1..WIDTH |-> (k + i) % 256])

\* Hash(...): the digest of the concatenation of the chunks; symbolic, so
\* two digests are equal exactly when their inputs are
Hash(chunks) == [pre |-> chunks]

Bytes(s) == [bytes |-> s]

-----------------------------------------------------------------------------
(* The primitive encoders of the serialization framework *)

WriteU8(v) == <<v>>

WriteLE32U(v) ==
    <<v % 256, (v \div 256) % 256, (v \div 65536) % 256, v \div 16777216>>

\* int32_t, two's complement
WriteLE32S(v) ==
    IF v >= 0 THEN WriteLE32U(v)
    ELSE LET u == (v + 2147483647) + 1
         IN  <<u % 256, (u \div 256) % 256, (u \div 65536) % 256,
               (u \div 16777216) + 128>>

WriteU256(d) == d.raw

\* values of 2^31 and more are outside the model's integers
WriteCompactSize(n) ==
    IF n < 253 THEN <<n>>
    ELSE IF n <= 65535 THEN <<253, n % 256, n \div 256>>
    ELSE <<254>> \o WriteLE32U(n)

\* prevector<28, unsigned char>: the count, then the bytes
WriteScript(s) == WriteCompactSize(Len(s)) \o s

\* std::vector<T>: the count, then each element's encoding
WriteVector(encs) == WriteCompactSize(Len(encs)) \o Flatten(encs)

-----------------------------------------------------------------------------
(* The primitive decoders.  Each takes the stream and the value the field  *)
(* holds, and returns [ok, val, rest]: whether the read succeeded, the     *)
(* value the field holds afterwards, and the stream left.  A read past the *)
(* end of the stream fails before it stores anything.                      *)

MAX_SIZE == 33554432

Fail(old, s) == [ok |-> FALSE, val |-> old, rest |-> s]
Done(v, s, n) == [ok |-> TRUE, val |-> v, rest |-> SubSeq(s, n + 1, Len(s))]

ReadU8(s, old) == IF Len(s) < 1 THEN Fail(old, s) ELSE Done(s[1], s, 1)

ReadLE32U(s, old) ==
    IF Len(s) < 4 THEN Fail(old, s)
    ELSE Done(s[1] + 256 * s[2] + 65536 * s[3] + 16777216 * s[4], s, 4)

ReadLE32S(s, old) ==
    IF Len(s) < 4 THEN Fail(old, s)
    ELSE IF s[4] < 128 THEN ReadLE32U(s, old)
    ELSE Done(((s[1] + 256 * s[2] + 65536 * s[3] + 16777216 * (s[4] - 128))
                  - 2147483647) - 1, s, 4)

ReadU256(s, old) ==
    IF Len(s) < WIDTH THEN Fail(old, s) ELSE Done(Raw(SubSeq(s, 1, WIDTH)), s, WIDTH)

\* fails on a truncated prefix, on a non-canonical one (a longer form than
\* the value needs) and on a value above MAX_SIZE
ReadCompactSize(s) ==
    IF Len(s) < 1 THEN Fail(0, s)
    ELSE IF s[1] < 253 THEN Done(s[1], s, 1)
    ELSE IF s[1] = 253 THEN
        IF Len(s) < 3 THEN Fail(0, s)
        ELSE LET n == s[2] + 256 * s[3]
             IN  IF n < 253 THEN Fail(0, s) ELSE Done(n, s, 3)
    ELSE IF s[1] = 254 THEN
        IF Len(s) < 5 \/ s[5] >= 3 THEN Fail(0, s)
        ELSE LET n == s[2] + 256 * s[3] + 65536 * s[4] + 16777216 * s[5]
             IN  IF n < 65536 \/ n > MAX_SIZE THEN Fail(0, s) ELSE Done(n, s, 5)
    ELSE Fail(0, s)   \* 8-byte form: truncated, non-canonical or above MAX_SIZE

\* prevector: cleared, the count read, resized to the count (zero bytes),
\* then the bytes read in one piece
ReadScript(s, old) ==
    LET c == ReadCompactSize(s)
    IN  IF ~c.ok THEN Fail(<<>>, s)
        ELSE IF Len(c.rest) < c.val THEN Fail(Repeat(0, c.val), c.rest)
        ELSE Done(SubSeq(c.rest, 1, c.val), c.rest, c.val)

\* the state of a decode: whether every read so far succeeded, the object
\* being filled, the stream left
Start(s, obj) == [ok |-> TRUE, obj |-> obj, rest |-> s]

-----------------------------------------------------------------------------
(* CTransaction: external to the file.  A transaction without inputs and   *)
(* outputs: version, two empty counts, lock time.                          *)

Tx(v, t) == [nVersion |-> v, nLockTime |-> t]

NewTx == Tx(1, 0)

SerTx(tx) ==
    WriteLE32S(tx.nVersion) \o WriteCompactSize(0) \o WriteCompactSize(0)
        \o WriteLE32U(tx.nLockTime)

UnserTx(s, tx) ==
    LET v == ReadLE32S(s, tx.nVersion)
        c1 == ReadCompactSize(v.rest)
        c2 == ReadCompactSize(c1.rest)
        t == ReadLE32U(c2.rest, tx.nLockTime)
    IN  IF ~v.ok THEN [ok |-> FALSE, obj |-> tx, rest |-> s]
        ELSE IF ~c1.ok \/ c1.val # 0 \/ ~c2.ok \/ c2.val # 0 THEN
            [ok |-> FALSE, obj |-> [tx EXCEPT !.nVersion = v.val], rest |-> v.rest]
        ELSE [ok |-> t.ok, obj |-> Tx(v.val, t.val), rest |-> t.rest]

-----------------------------------------------------------------------------
(* CBlockHeader *)

HeaderFields ==
    {"nVersion", "hashPrevBlock", "hashPrevEpisode", "hashMerkleRoot",
     "hashFruits", "nTime", "nBits", "nNonce", "scriptPubKey", "nTax"}

\* CBlockHeader::SetNull, on any record that has the header's fields
HeaderSetNull(h) ==
    [h EXCEPT !.nVersion = 0,
              !.hashPrevBlock = ZeroDigest,
              !.hashPrevEpisode = ZeroDigest,
              !.hashMerkleRoot = ZeroDigest,
              !.hashFruits = ZeroDigest,
              !.nTime = 0,
              !.nBits = 0,
              !.nNonce = 0,
              !.scriptPubKey = <<>>,
              !.nTax = 0]

\* the fields before the constructor body runs: unspecified, set to a
\* value SetNull must overwrite
RawHeader ==
    [nVersion |-> 7, hashPrevBlock |-> Digest(9), hashPrevEpisode |-> Digest(9),
     hashMerkleRoot |-> Digest(9), hashFruits |-> Digest(9), nTime |-> 7,
     nBits |-> 7, nNonce |-> 7, scriptPubKey |-> <<7>>, nTax |-> 7]

\* CBlockHeader::CBlockHeader()
NewHeader == HeaderSetNull(RawHeader)

IsNull_allZero(h) == h = NewHeader

\* CBlockHeader::IsNull
IsNull(h) == h.nBits = 0

\* the header's encoding with two digests in each other's place
SerHeader_swapped(h) ==
       WriteLE32S(h.nVersion)
    \o WriteU256(h.hashPrevBlock)
    \o WriteU256(h.hashMerkleRoot)
    \o WriteU256(h.hashPrevEpisode)
    \o WriteU256(h.hashFruits)
    \o WriteLE32U(h.nTime)
    \o WriteLE32U(h.nBits)
    \o WriteLE32U(h.nNonce)
    \o WriteScript(h.scriptPubKey)
    \o WriteU8(h.nTax)

\* the header's encoding with a 4-byte nTax
SerHeader_wideTax(h) ==
       WriteLE32S(h.nVersion)
    \o WriteU256(h.hashPrevBlock)
    \o WriteU256(h.hashPrevEpisode)
    \o WriteU256(h.hashMerkleRoot)
    \o WriteU256(h.hashFruits)
    \o WriteLE32U(h.nTime)
    \o WriteLE32U(h.nBits)
    \o WriteLE32U(h.nNonce)
    \o WriteScript(h.scriptPubKey)
    \o WriteLE32U(h.nTax)

\* CBlockHeader::SerializationOp, writing
SerHeader(h) ==
       WriteLE32S(h.nVersion)
    \o WriteU256(h.hashPrevBlock)
    \o WriteU256(h.hashPrevEpisode)
    \o WriteU256(h.hashMerkleRoot)
    \o WriteU256(h.hashFruits)
    \o WriteLE32U(h.nTime)
    \o WriteLE32U(h.nBits)
    \o WriteLE32U(h.nNonce)
    \o WriteScript(h.scriptPubKey)
    \o WriteU8(h.nTax)

\* CBlockHeader::SerializationOp: the fields in the order of its READWRITEs,
\* each with the type that selects its decoder
HeaderLayout ==
    << <<"nVersion", "int32">>,
       <<"hashPrevBlock", "uint256">>,
       <<"hashPrevEpisode", "uint256">>,
       <<"hashMerkleRoot", "uint256">>,
       <<"hashFruits", "uint256">>,
       <<"nTime", "uint32">>,
       <<"nBits", "uint32">>,
       <<"nNonce", "uint32">>,
       <<"scriptPubKey", "script">>,
       <<"nTax", "uint8">> >>

RECURSIVE UnserLayout(_, _)

\* std::vector<CBlockHeader>: cleared, the count read, resized to the count
\* (default-constructed headers), then each element decoded in place
RECURSIVE ReadHeaderElems(_, _, _)
ReadHeaderElems(s, v, i) ==
    IF i > Len(v) THEN [ok |-> TRUE, val |-> v, rest |-> s]
    ELSE LET r == UnserLayout(Start(s, v[i]), HeaderLayout)
         IN  IF r.ok THEN ReadHeaderElems(r.rest, [v EXCEPT ![i] = r.obj], i + 1)
             ELSE [ok |-> FALSE, val |-> [v EXCEPT ![i] = r.obj], rest |-> r.rest]

ReadHeaderVector(s, old) ==
    LET c == ReadCompactSize(s)
    IN  IF ~c.ok THEN Fail(<<>>, s)
        ELSE ReadHeaderElems(c.rest, [i \in 1..c.val |-> NewHeader], 1)

\* std::vector<CTransaction>, the same way
RECURSIVE ReadTxElems(_, _, _)
ReadTxElems(s, v, i) ==
    IF i > Len(v) THEN [ok |-> TRUE, val |-> v, rest |-> s]
    ELSE LET r == UnserTx(s, v[i])
         IN  IF r.ok THEN ReadTxElems(r.rest, [v EXCEPT ![i] = r.obj], i + 1)
             ELSE [ok |-> FALSE, val |-> [v EXCEPT ![i] = r.obj], rest |-> r.rest]

ReadTxVector(s, old) ==
    LET c == ReadCompactSize(s)
    IN  IF ~c.ok THEN Fail(<<>>, s)
        ELSE ReadTxElems(c.rest, [i \in 1..c.val |-> NewTx], 1)

\* std::vector<uint256>, the same way
RECURSIVE ReadDigestElems(_, _, _)
ReadDigestElems(s, v, i) ==
    IF i > Len(v) THEN [ok |-> TRUE, val |-> v, rest |-> s]
    ELSE LET r == ReadU256(s, v[i])
         IN  IF r.ok THEN ReadDigestElems(r.rest, [v EXCEPT ![i] = r.val], i + 1)
             ELSE [ok |-> FALSE, val |-> v, rest |-> r.rest]

ReadDigestVector(s, old) ==
    LET c == ReadCompactSize(s)
    IN  IF ~c.ok THEN Fail(<<>>, s)
        ELSE ReadDigestElems(c.rest, [i \in 1..c.val |-> ZeroDigest], 1)

\* one READWRITE of a decode, by the type of the field
ReadField(type, s, old) ==
    CASE type = "int32" -> ReadLE32S(s, old)
      [] type = "uint32" -> ReadLE32U(s, old)
      [] type = "uint8" -> ReadU8(s, old)
      [] type = "uint256" -> ReadU256(s, old)
      [] type = "script" -> ReadScript(s, old)
      [] type = "headers" -> ReadHeaderVector(s, old)
      [] type = "transactions" -> ReadTxVector(s, old)
      [] type = "digests" -> ReadDigestVector(s, old)

\* the READWRITEs of a decode with a failed read passed over
RECURSIVE UnserLayout_lenient(_, _)
UnserLayout_lenient(st, layout) ==
    IF layout = <<>> THEN st
    ELSE LET f == Head(layout)[1]
             r == ReadField(Head(layout)[2], st.rest, st.obj[f])
         IN  UnserLayout_lenient([ok |-> r.ok, obj |-> [st.obj EXCEPT ![f] = r.val],
                                  rest |-> r.rest], Tail(layout))

\* the READWRITEs of a decode in order; once a read has failed (the
\* exception is on its way out) nothing more is read
UnserLayout(st, layout) ==
    IF layout = <<>> \/ ~st.ok THEN st
    ELSE LET f == Head(layout)[1]
             r == ReadField(Head(layout)[2], st.rest, st.obj[f])
         IN  UnserLayout([ok |-> r.ok, obj |-> [st.obj EXCEPT ![f] = r.val],
                          rest |-> r.rest], Tail(layout))

\* CBlockHeader::SerializationOp, reading into the object h
UnserHeader(s, h) == UnserLayout(Start(s, h), HeaderLayout)

\* CBlockHeader::GetHash: the digest of the header's encoding
GetHash(h) == Hash(<<Bytes(SerHeader(h))>>)

-----------------------------------------------------------------------------
(* CBlock *)

\* CBlock::SetNull
BlockSetNull(b) ==
    [HeaderSetNull(b) EXCEPT !.vtx = <<>>, !.vfrt = <<>>, !.fChecked = FALSE]

RawBlock ==
    [f \in HeaderFields \cup {"vtx", "vfrt", "fChecked"} |->
        IF f \in HeaderFields THEN RawHeader[f]
        ELSE IF f = "fChecked" THEN TRUE
        ELSE <<>>]

\* CBlock::CBlock()
NewBlock == BlockSetNull(RawBlock)

\* CBlock::CBlock(const CBlockHeader&): SetNull, then the base part assigned
BlockFromHeader(h) ==
    [f \in DOMAIN NewBlock |-> IF f \in HeaderFields THEN h[f] ELSE NewBlock[f]]

\* CBlock::SerializationOp with vfrt left out
SerBlock_noFruits(b) ==
       SerHeader(b)
    \o WriteVector([i \in 1..Len(b.vtx) |-> SerTx(b.vtx[i])])

\* CBlock::SerializationOp, writing: the base part, vtx, vfrt
SerBlock(b) ==
       SerHeader(b)
    \o WriteVector([i \in 1..Len(b.vtx) |-> SerTx(b.vtx[i])])
    \o WriteVector([i \in 1..Len(b.vfrt) |-> SerHeader(b.vfrt[i])])

\* CBlock::SerializationOp: its READWRITEs in order
BlockLayout ==
    HeaderLayout \o << <<"vtx", "transactions">>, <<"vfrt", "headers">> >>

\* CBlock::SerializationOp, reading into the object b
UnserBlock(s, b) == UnserLayout(Start(s, b), BlockLayout)

\* CBlock::GetBlockHeader with the copy of nTax left out
GetBlockHeader_noTax(b) ==
    [NewHeader EXCEPT !.nVersion = b.nVersion,
                      !.hashPrevBlock = b.hashPrevBlock,
                      !.hashPrevEpisode = b.hashPrevEpisode,
                      !.hashMerkleRoot = b.hashMerkleRoot,
                      !.hashFruits = b.hashFruits,
                      !.nTime = b.nTime,
                      !.nBits = b.nBits,
                      !.nNonce = b.nNonce,
                      !.scriptPubKey = b.scriptPubKey]

\* CBlock::GetBlockHeader: a header constructed, then assigned field by field
GetBlockHeader(b) ==
    [NewHeader EXCEPT !.nVersion = b.nVersion,
                      !.hashPrevBlock = b.hashPrevBlock,
                      !.hashPrevEpisode = b.hashPrevEpisode,
                      !.hashMerkleRoot = b.hashMerkleRoot,
                      !.hashFruits = b.hashFruits,
                      !.nTime = b.nTime,
                      !.nBits = b.nBits,
                      !.nNonce = b.nNonce,
                      !.scriptPubKey = b.scriptPubKey,
                      !.nTax = b.nTax]

\* the first loop of GetFruitsHash: vfrtHash
FruitHashes(b) == [i \in 1..Len(b.vfrt) |-> GetHash(b.vfrt[i])]

\* the second loop of GetFruitsHash, from iterator position it on
RECURSIVE FoldFrom(_, _, _)
FoldFrom(hash, vfrtHash, it) ==
    IF it > Len(vfrtHash) THEN hash
    ELSE FoldFrom(Hash(<<hash, vfrtHash[it]>>), vfrtHash, it + 1)

Reverse(s) == [i \in 1..Len(s) |-> s[Len(s) + 1 - i]]

\* the hashes folded from the last to the first
GetFruitsHash_reversed(b) == FoldFrom(ZeroDigest, Reverse(FruitHashes(b)), 1)

\* the accumulator started from the digest of the zero digest
GetFruitsHash_seeded(b) == FoldFrom(Hash(<<ZeroDigest>>), FruitHashes(b), 1)

\* the hashes collected in a set and folded in the set's order
GetFruitsHash_set(b) ==
    LET S == {FruitHashes(b)[i] : i \in 1..Len(b.vfrt)}
        v == CHOOSE q \in [1..Cardinality(S) -> S] : {q[i] : i \in DOMAIN q} = S
    IN  FoldFrom(ZeroDigest, v, 1)

\* CBlock::GetFruitsHash
GetFruitsHash(b) == FoldFrom(ZeroDigest, FruitHashes(b), 1)

-----------------------------------------------------------------------------
(* CBlockLocator *)

\* CBlockLocator::CBlockLocator()
NewLocator == [vHave |-> <<>>]

\* CBlockLocator::SetNull
LocatorSetNull(l) == [l EXCEPT !.vHave = <<>>]

\* CBlockLocator::IsNull
LocatorIsNull(l) == l.vHave = <<>>

SER_NETWORK == 1
SER_DISK == 2
SER_GETHASH == 4

\* nType & SER_GETHASH
GetHashMode(nType) == (nType \div SER_GETHASH) % 2 = 1

\* CBlockLocator::SerializationOp with the mode tested by equality
SerLocator_eq(l, nType, nVersion) ==
       (IF ~(nType = SER_GETHASH) THEN WriteLE32S(nVersion) ELSE <<>>)
    \o WriteVector([i \in 1..Len(l.vHave) |-> WriteU256(l.vHave[i])])

\* CBlockLocator::SerializationOp, writing
SerLocator(l, nType, nVersion) ==
       (IF ~GetHashMode(nType) THEN WriteLE32S(nVersion) ELSE <<>>)
    \o WriteVector([i \in 1..Len(l.vHave) |-> WriteU256(l.vHave[i])])

\* CBlockLocator::SerializationOp, reading into the object l: the version
\* is read into the parameter nVersion and is gone when the call returns
UnserLocator(s, l, nType, nVersion) ==
    LET v == IF ~GetHashMode(nType) THEN ReadLE32S(s, nVersion)
             ELSE [ok |-> TRUE, val |-> nVersion, rest |-> s]
    IN  IF ~v.ok THEN [ok |-> FALSE, obj |-> l, rest |-> s]
        ELSE UnserLayout(Start(v.rest, l), << <<"vHave", "digests">> >>)

-----------------------------------------------------------------------------
(* The state after construction *)

Init ==
    /\ hdr = NewHeader
    /\ blk = NewBlock
    /\ loc = NewLocator
    /\ stream = <<>>
    /\ op = "init"
    /\ ret = "none"
    /\ snap = "none"

-----------------------------------------------------------------------------
(* Spec: the life of one header object *)

\* the values the fields are assigned
FieldVals(f) ==
    CASE f = "nVersion" -> {1}
      [] f = "hashPrevBlock" -> {Digest(16)}
      [] f = "hashPrevEpisode" -> {Digest(32)}
      [] f = "hashMerkleRoot" -> {Digest(48)}
      [] f = "hashFruits" -> {Digest(64)}
      [] f = "nTime" -> {12345}
      [] f = "nBits" -> {1, 486604799}
      [] f = "nNonce" -> {99}
      [] f = "scriptPubKey" -> {<<81>>}
      [] f = "nTax" -> {5}

\* version 1, bits 1, everything else zero or empty
PlainHeader == [NewHeader EXCEPT !.nVersion = 1, !.nBits = 1]

\* every field set
FullHeader ==
    [nVersion |-> 1, hashPrevBlock |-> Digest(16), hashPrevEpisode |-> Digest(32),
     hashMerkleRoot |-> Digest(48), hashFruits |-> Digest(64), nTime |-> 12345,
     nBits |-> 486604799, nNonce |-> 99, scriptPubKey |-> <<81>>, nTax |-> 5]

\* bits zero, time and nonce not
OddHeader == [NewHeader EXCEPT !.nTime = 12345, !.nNonce = 99]

Prefixes(s) == {SubSeq(s, 1, n) : n \in 0..Len(s)}

\* the byte strings a header is decoded from: encodings, whole, or cut short
\* at every fourth byte
Incoming ==
    {SerHeader(h) : h \in {PlainHeader, FullHeader, OddHeader}}
        \cup {b \in Prefixes(SerHeader(FullHeader)) : Len(b) % 4 = 0}

HdrConstruct ==
    /\ hdr' = NewHeader
    /\ op' = "CBlockHeader"
    /\ ret' = "none"
    /\ UNCHANGED <<blk, loc, stream, snap>>

HdrSetNull ==
    /\ hdr' = HeaderSetNull(hdr)
    /\ op' = "SetNull"
    /\ ret' = "none"
    /\ UNCHANGED <<blk, loc, stream, snap>>

HdrAssign ==
    \E f \in HeaderFields : \E v \in FieldVals(f) :
        /\ hdr' = [hdr EXCEPT ![f] = v]
        /\ op' = "assign"
        /\ ret' = "none"
        /\ UNCHANGED <<blk, loc, stream, snap>>

\* a header decoded from received bytes into the object
HdrDecode ==
    \E b \in Incoming :
        LET r == UnserHeader(b, hdr)
        IN  /\ hdr' = r.obj
            /\ op' = IF r.ok THEN "decoded" ELSE "decode failed"
            /\ ret' = "none"
            /\ UNCHANGED <<blk, loc, stream, snap>>

HdrIsNull ==
    /\ ret' = IsNull(hdr)
    /\ op' = "IsNull"
    /\ UNCHANGED <<hdr, blk, loc, stream, snap>>

Next == HdrConstruct \/ HdrSetNull \/ HdrAssign \/ HdrDecode \/ HdrIsNull

Spec == Init /\ [][Next]_vars

\* C4: a header is null exactly when nBits is 0, whatever the other fields
\* hold; IsNull() returns that; and a header just constructed or just reset
\* has all ten fields zero or empty and is null.
C4_NullIffBitsZero ==
    /\ IsNull(hdr) <=> (hdr.nBits = 0)
    /\ op = "IsNull" => (ret <=> (hdr.nBits = 0))
    /\ op \in {"init", "CBlockHeader", "SetNull"} =>
          /\ IsNull(hdr)
          /\ hdr.nVersion = 0 /\ hdr.nTime = 0 /\ hdr.nBits = 0 /\ hdr.nNonce = 0
          /\ hdr.nTax = 0 /\ hdr.scriptPubKey = <<>>
          /\ \A f \in {"hashPrevBlock", "hashPrevEpisode", "hashMerkleRoot",
                       "hashFruits"} : hdr[f] = ZeroDigest

\* IsNull() has answered TRUE on a header with bits 0, time 12345, nonce 99
C4_Witness ==
    /\ op = "IsNull" /\ ret = TRUE
    /\ hdr.nBits = 0 /\ hdr.nTime = 12345 /\ hdr.nNonce = 99

-----------------------------------------------------------------------------
(* SpecBlock: the life of one block object *)

FruitSet == {PlainHeader, FullHeader, OddHeader}

TxSet == {Tx(1, 0), Tx(2, 500000)}

BlkConstruct ==
    /\ blk' = NewBlock
    /\ op' = "CBlock"
    /\ ret' = "none" /\ snap' = "none"
    /\ UNCHANGED <<hdr, loc, stream>>

BlkFromHeader ==
    \E h \in {PlainHeader, FullHeader} :
        /\ blk' = BlockFromHeader(h)
        /\ op' = "CBlock"
        /\ ret' = "none" /\ snap' = "none"
        /\ UNCHANGED <<hdr, loc, stream>>

BlkSetNull ==
    /\ blk' = BlockSetNull(blk)
    /\ op' = "SetNull"
    /\ ret' = "none" /\ snap' = "none"
    /\ UNCHANGED <<hdr, loc, stream>>

\* vtx.push_back
BlkPushTx ==
    \E tx \in TxSet :
        /\ Len(blk.vtx) < MaxTx
        /\ blk' = [blk EXCEPT !.vtx = Append(@, tx)]
        /\ op' = "push_back"
        /\ ret' = "none" /\ snap' = "none"
        /\ UNCHANGED <<hdr, loc, stream>>

\* vfrt.push_back
BlkPushFruit ==
    \E f \in FruitSet :
        /\ Len(blk.vfrt) < MaxFruits
        /\ blk' = [blk EXCEPT !.vfrt = Append(@, f)]
        /\ op' = "push_back"
        /\ ret' = "none" /\ snap' = "none"
        /\ UNCHANGED <<hdr, loc, stream>>

\* vtx.clear
BlkClearTx ==
    /\ blk' = [blk EXCEPT !.vtx = <<>>]
    /\ op' = "clear"
    /\ ret' = "none" /\ snap' = "none"
    /\ UNCHANGED <<hdr, loc, stream>>

\* vfrt.clear
BlkClearFruits ==
    /\ blk' = [blk EXCEPT !.vfrt = <<>>]
    /\ op' = "clear"
    /\ ret' = "none" /\ snap' = "none"
    /\ UNCHANGED <<hdr, loc, stream>>

\* the validation that owns the block sets its cache flag
BlkSetChecked ==
    /\ ~blk.fChecked
    /\ blk' = [blk EXCEPT !.fChecked = TRUE]
    /\ op' = "checked"
    /\ ret' = "none" /\ snap' = "none"
    /\ UNCHANGED <<hdr, loc, stream>>

\* hdr = blk.GetBlockHeader()
BlkGetBlockHeader ==
    /\ hdr' = GetBlockHeader(blk)
    /\ op' = "GetBlockHeader"
    /\ ret' = "none" /\ snap' = "none"
    /\ UNCHANGED <<blk, loc, stream>>

\* blk.GetFruitsHash()
BlkGetFruitsHash ==
    /\ ret' = GetFruitsHash(blk)
    /\ snap' = blk
    /\ op' = "GetFruitsHash"
    /\ UNCHANGED <<hdr, blk, loc, stream>>

NextBlock ==
    \/ BlkConstruct \/ BlkFromHeader \/ BlkSetNull
    \/ BlkPushTx \/ BlkPushFruit \/ BlkClearTx \/ BlkClearFruits
    \/ BlkSetChecked \/ BlkGetBlockHeader \/ BlkGetFruitsHash

SpecBlock == Init /\ [][NextBlock]_vars

\* the left fold written from its last step: the empty sequence gives the
\* zero digest, and fs followed by f gives Hash(fold(fs) || f.GetHash())
RECURSIVE LeftFold(_)
LeftFold(fs) ==
    IF fs = <<>> THEN ZeroDigest
    ELSE Hash(<<LeftFold(SubSeq(fs, 1, Len(fs) - 1)),
                Hash(<<Bytes(SerHeader(fs[Len(fs)]))>>)>>)

\* C1: GetFruitsHash returns the left fold over vfrt in stored order,
\* started from the zero digest, and leaves the block as it was.
C1_FruitsHashIsLeftFold ==
    op = "GetFruitsHash" => ret = LeftFold(blk.vfrt) /\ blk = snap

\* the fold has run over two different fruits
C1_Witness ==
    /\ op = "GetFruitsHash" /\ Len(blk.vfrt) = 2 /\ blk.vfrt[1] # blk.vfrt[2]
    /\ ret = Hash(<<Hash(<<ZeroDigest, GetHash(blk.vfrt[1])>>), GetHash(blk.vfrt[2])>>)

\* C2 as stated: on an empty vfrt GetFruitsHash returns the digest of the
\* zero digest.
C2_EmptyIsDigestOfZero ==
    op = "GetFruitsHash" /\ blk.vfrt = <<>> => ret = Hash(<<ZeroDigest>>)

\* C2, amended: on an empty vfrt GetFruitsHash returns the zero digest
\* itself (the digest primitive is not applied), whatever the header fields
\* and the transactions of the block are.
C2_EmptyIsZeroDigest ==
    op = "GetFruitsHash" /\ blk.vfrt = <<>> => ret = ZeroDigest

\* the call has answered on a block without fruits that has header fields
\* set and a transaction
C2_Witness ==
    /\ op = "GetFruitsHash" /\ blk.vfrt = <<>> /\ ret = ZeroDigest
    /\ blk.nBits # 0 /\ blk.vtx # <<>>

\* the block with its two fruits in the other order
Swapped(b) == [b EXCEPT !.vfrt = <<b.vfrt[2], b.vfrt[1]>>]

\* C3: when vfrt holds two fruits with different header hashes, the block
\* with the two in the other order has a different GetFruitsHash.
C3_OrderSensitive ==
    /\ op = "GetFruitsHash"
    /\ Len(blk.vfrt) = 2
    /\ GetHash(blk.vfrt[1]) # GetHash(blk.vfrt[2])
    => ret # GetFruitsHash(Swapped(blk))

C3_Witness ==
    /\ op = "GetFruitsHash"
    /\ Len(blk.vfrt) = 2
    /\ GetHash(blk.vfrt[1]) # GetHash(blk.vfrt[2])
    /\ ret # ZeroDigest

\* C5: GetBlockHeader returns a header whose ten fields are the block's and
\* leaves the block as it was; no later change of the block (push_back and
\* clear on vtx and vfrt, SetNull, construction, the cache flag) changes the
\* header returned.
C5_HeaderViewIndependent ==
    [][ /\ op' = "GetBlockHeader" =>
              /\ \A f \in HeaderFields : hdr'[f] = blk[f]
              /\ DOMAIN hdr' = HeaderFields
              /\ blk' = blk
        /\ op' # "GetBlockHeader" => hdr' = hdr ]_vars

\* a header was returned with every field set, and the block was reset
\* afterwards
C5_Witness ==
    /\ hdr = FullHeader /\ blk = NewBlock /\ op = "SetNull"

-----------------------------------------------------------------------------
(* SpecCodec: one record written to the stream, the stream possibly cut    *)
(* short, and a record read back from it                                   *)

SeqsUpTo(S, n) == UNION {[1..k -> S] : k \in 0..n}

\* every field set, a negative version, a script that needs a 3-byte count
LongHeader ==
    [FullHeader EXCEPT !.nVersion = -1,
                       !.scriptPubKey = [i \in 1..253 |-> i % 256]]

HeaderSet == {PlainHeader, FullHeader, OddHeader, LongHeader}

BlockSet ==
    {[BlockFromHeader(FullHeader) EXCEPT !.vtx = t, !.vfrt = f, !.fChecked = c] :
        t \in SeqsUpTo({Tx(2, 500000)}, MaxTx),
        f \in SeqsUpTo({OddHeader, FullHeader}, MaxFruits),
        c \in BOOLEAN}

LocatorSet == {[vHave |-> v] : v \in SeqsUpTo({Digest(16), Digest(32)}, MaxHave)}

TypeSet == {SER_NETWORK, SER_GETHASH, SER_DISK + SER_GETHASH}

VersionSet == {1, 70002}

\* what the objects hold before a record is read into them, when they were
\* used before: values that occur in no record written
PriorHeader ==
    [nVersion |-> 3, hashPrevBlock |-> Digest(101), hashPrevEpisode |-> Digest(102),
     hashMerkleRoot |-> Digest(103), hashFruits |-> Digest(104), nTime |-> 777,
     nBits |-> 3, nNonce |-> 4, scriptPubKey |-> <<1, 2>>, nTax |-> 9]

PriorBlock ==
    [BlockFromHeader(PriorHeader) EXCEPT !.vtx = <<Tx(3, 7)>>,
                                         !.vfrt = <<PriorHeader>>,
                                         !.fChecked = TRUE]

PriorLocator == [vHave |-> <<Digest(105)>>]

\* byte strings that no encoder of the model produced
WirePlainHeader ==
    <<1, 0, 0, 0>> \o Repeat(0, 128) \o <<0, 0, 0, 0>> \o <<1, 0, 0, 0>>
        \o <<0, 0, 0, 0>> \o <<0>> \o <<0>>

WireSamples ==
    { WirePlainHeader,
      \* a header whose script count of 1 is written in the 3-byte form
      <<1, 0, 0, 0>> \o Repeat(0, 128) \o <<0, 0, 0, 0>> \o <<1, 0, 0, 0>>
          \o <<0, 0, 0, 0>> \o <<253, 1, 0, 81>> \o <<0>>,
      \* a header whose script count is above MAX_SIZE
      <<1, 0, 0, 0>> \o Repeat(0, 128) \o <<0, 0, 0, 0>> \o <<1, 0, 0, 0>>
          \o <<0, 0, 0, 0>> \o <<254, 0, 0, 0, 3>> \o <<0>>,
      \* a block: that header, one transaction, no fruit
      WirePlainHeader \o <<1>> \o <<2, 0, 0, 0, 0, 0, 9, 0, 0, 0>> \o <<0>>,
      \* a locator with version 2 and one zero digest
      <<2, 0, 0, 0>> \o <<1>> \o Repeat(0, 32),
      \* a locator without version, one digest
      <<1>> \o [i \in 1..32 |-> i] }

Round(kind, sent, bytes, nType, nVersion) ==
    [kind |-> kind, sent |-> sent, bytes |-> bytes, nType |-> nType,
     nVersion |-> nVersion, as |-> "none", wire |-> <<>>, prev |-> "none",
     rType |-> 0, rVersion |-> 0]

\* the three objects are used before the round: each holds a record
Prepare ==
    /\ op = "init"
    /\ hdr' = PriorHeader /\ blk' = PriorBlock /\ loc' = PriorLocator
    /\ op' = "prepared"
    /\ UNCHANGED <<stream, ret, snap>>

\* stream << h
WriteHeader ==
    \E h \in HeaderSet :
        /\ op = "prepared"
        /\ stream' = SerHeader(h)
        /\ snap' = Round("header", h, stream', 0, 0)
        /\ op' = "written"
        /\ UNCHANGED <<hdr, blk, loc, ret>>

\* stream << b
WriteBlock ==
    \E b \in BlockSet :
        /\ op = "prepared"
        /\ stream' = SerBlock(b)
        /\ snap' = Round("block", b, stream', 0, 0)
        /\ op' = "written"
        /\ UNCHANGED <<hdr, blk, loc, ret>>

\* l.Serialize(stream, nType, nVersion)
WriteLocator ==
    \E l \in LocatorSet : \E nType \in TypeSet : \E nVersion \in VersionSet :
        /\ op = "prepared"
        /\ stream' = SerLocator(l, nType, nVersion)
        /\ snap' = Round("locator", l, stream', nType, nVersion)
        /\ op' = "written"
        /\ UNCHANGED <<hdr, blk, loc, ret>>

\* bytes received from elsewhere
Load ==
    \E b \in WireSamples :
        /\ op = "prepared"
        /\ stream' = b
        /\ snap' = Round("wire", "none", b, 0, 0)
        /\ op' = "written"
        /\ UNCHANGED <<hdr, blk, loc, ret>>

\* the stream ends early
Truncate ==
    \E n \in 0..(Len(stream) - 1) :
        /\ op = "written"
        /\ stream' = SubSeq(stream, 1, n)
        /\ op' = "cut"
        /\ UNCHANGED <<hdr, blk, loc, ret, snap>>

Outcome(ok) == IF ok THEN "read ok" ELSE "read failed"

\* stream >> hdr
ReadHeader ==
    /\ op \in {"written", "cut"}
    /\ snap.kind \in {"header", "wire"}
    /\ LET r == UnserHeader(stream, hdr)
       IN  /\ hdr' = r.obj
           /\ stream' = r.rest
           /\ ret' = r.ok
           /\ op' = Outcome(r.ok)
    /\ snap' = [snap EXCEPT !.as = "header", !.wire = stream, !.prev = hdr]
    /\ UNCHANGED <<blk, loc>>

\* stream >> blk
ReadBlock ==
    /\ op \in {"written", "cut"}
    /\ snap.kind \in {"block", "wire"}
    /\ LET r == UnserBlock(stream, blk)
       IN  /\ blk' = r.obj
           /\ stream' = r.rest
           /\ ret' = r.ok
           /\ op' = Outcome(r.ok)
    /\ snap' = [snap EXCEPT !.as = "block", !.wire = stream, !.prev = blk]
    /\ UNCHANGED <<hdr, loc>>

\* loc.Unserialize(stream, nType, nVersion)
ReadLocator ==
    \E nType \in TypeSet : \E nVersion \in VersionSet :
        /\ op \in {"written", "cut"}
        /\ snap.kind \in {"locator", "wire"}
        /\ LET r == UnserLocator(stream, loc, nType, nVersion)
           IN  /\ loc' = r.obj
               /\ stream' = r.rest
               /\ ret' = r.ok
               /\ op' = Outcome(r.ok)
        /\ snap' = [snap EXCEPT !.as = "locator", !.wire = stream, !.prev = loc,
                                !.rType = nType, !.rVersion = nVersion]
        /\ UNCHANGED <<hdr, blk>>

NextCodec ==
    \/ Prepare \/ WriteHeader \/ WriteBlock \/ WriteLocator \/ Load
    \/ Truncate \/ ReadHeader \/ ReadBlock \/ ReadLocator

SpecCodec == Init /\ [][NextCodec]_vars

\* the 32-bit value of the four bytes of s from position i, low byte first
LittleEndian(s, i) ==
    IF s[i + 3] < 128
    THEN s[i] + 256 * s[i + 1] + 65536 * s[i + 2] + 16777216 * s[i + 3]
    ELSE ((s[i] + 256 * s[i + 1] + 65536 * s[i + 2] + 16777216 * (s[i + 3] - 128))
             - 2147483647) - 1

\* C6: the encoding of a header is, in this order and with nothing else:
\* nVersion (4 bytes, low byte first), hashPrevBlock, hashPrevEpisode,
\* hashMerkleRoot, hashFruits (32 raw bytes each), nTime, nBits, nNonce (4
\* bytes each, low byte first), the script's length as a compact size, the
\* script's bytes, nTax (1 byte); its length is
\* 4 + 4*32 + 3*4 + prefixLen + scriptLen + 1.
C6_HeaderLayout ==
    op = "written" /\ snap.kind = "header" =>
        LET h == snap.sent
            n == Len(h.scriptPubKey)
            p == IF n < 253 THEN 1 ELSE 3
        IN  /\ Len(stream) = 4 + 4 * 32 + 3 * 4 + p + n + 1
            /\ \A i \in 1..Len(stream) : stream[i] \in 0..255
            /\ LittleEndian(stream, 1) = h.nVersion
            /\ SubSeq(stream, 5, 36) = h.hashPrevBlock.raw
            /\ SubSeq(stream, 37, 68) = h.hashPrevEpisode.raw
            /\ SubSeq(stream, 69, 100) = h.hashMerkleRoot.raw
            /\ SubSeq(stream, 101, 132) = h.hashFruits.raw
            /\ LittleEndian(stream, 133) = h.nTime
            /\ LittleEndian(stream, 137) = h.nBits
            /\ LittleEndian(stream, 141) = h.nNonce
            /\ IF p = 1 THEN stream[145] = n
               ELSE stream[145] = 253 /\ stream[146] + 256 * stream[147] = n
            /\ SubSeq(stream, 145 + p, 144 + p + n) = h.scriptPubKey
            /\ stream[145 + p + n] = h.nTax

\* the header with the 253-byte script and the negative version was encoded
C6_Witness ==
    /\ op = "written" /\ snap.kind = "header"
    /\ snap.sent = LongHeader /\ Len(stream) = 401 /\ stream[145] = 253

\* C7 as stated: the header with version 1, bits 1, zero digests, time and
\* nonce 0, empty script and tax 0 encodes to 150 bytes.
C7_PlainHeaderIs150 ==
    op = "written" /\ snap.kind = "header" /\ snap.sent = PlainHeader =>
        Len(stream) = 150

\* C7, amended: that header encodes to 146 bytes, the sum of its fixed-width
\* fields and the 1-byte script length (4 + 32*4 + 4 + 4 + 4 + 1 + 1).
C7_PlainHeaderIs146 ==
    op = "written" /\ snap.kind = "header" /\ snap.sent = PlainHeader =>
        /\ Len(stream) = 146
        /\ Len(stream) = 4 + 32 * 4 + 4 + 4 + 4 + 1 + 1

\* that header was encoded, to the bytes written out by hand
C7_Witness ==
    /\ op = "written" /\ snap.kind = "header" /\ snap.sent = PlainHeader
    /\ stream = WirePlainHeader

\* C8: a locator's encoding in hash mode (nType has the SER_GETHASH bit) is
\* the count of vHave and its digests and no version; in every other mode it
\* is the 4-byte version followed by exactly that.
C8_LocatorModes ==
    op = "written" /\ snap.kind = "locator" =>
        LET v == snap.sent.vHave
            body == <<Len(v)>> \o Flatten([i \in 1..Len(v) |-> v[i].raw])
        IN  IF snap.nType \in {4, 5, 6, 7}
            THEN stream = body
            ELSE /\ LittleEndian(stream, 1) = snap.nVersion
                 /\ SubSeq(stream, 5, Len(stream)) = body
                 /\ Len(stream) = 4 + Len(body)

\* a locator of two digests was encoded in a hash mode that has another
\* bit set as well
C8_Witness ==
    /\ op = "written" /\ snap.kind = "locator"
    /\ snap.nType = SER_DISK + SER_GETHASH
    /\ Len(snap.sent.vHave) = 2 /\ Len(stream) = 65

\* the bytes that field f of record r takes in r's encoding
FieldBytes(r, f) ==
    CASE f = "nVersion" -> WriteLE32S(r.nVersion)
      [] f \in {"hashPrevBlock", "hashPrevEpisode", "hashMerkleRoot", "hashFruits"} ->
            r[f].raw
      [] f \in {"nTime", "nBits", "nNonce"} -> WriteLE32U(r[f])
      [] f = "scriptPubKey" -> WriteScript(r.scriptPubKey)
      [] f = "nTax" -> <<r.nTax>>
      [] f = "vtx" -> WriteVector([i \in 1..Len(r.vtx) |-> SerTx(r.vtx[i])])
      [] f = "vfrt" -> WriteVector([i \in 1..Len(r.vfrt) |-> SerHeader(r.vfrt[i])])

\* where the i-th field of the layout ends in r's encoding
EndOf(r, layout, i) == Len(Flatten([j \in 1..i |-> FieldBytes(r, layout[j][1])]))

\* a header or block was written, the stream cut short, and a record of the
\* same kind read from it
CutRead ==
    /\ op \in {"read ok", "read failed"}
    /\ snap.as \in {"header", "block"}
    /\ snap.kind = snap.as
    /\ Len(snap.wire) < Len(snap.bytes)

Dest == IF snap.as = "header" THEN hdr ELSE IF snap.as = "block" THEN blk ELSE loc

\* C9 as stated: reading a header or block from a stream cut short ends in
\* an error, and after a failed read the destination holds what it held
\* before: no field is taken from the stream.
C9_NoPartialRecord ==
    /\ CutRead => op = "read failed"
    /\ op = "read failed" /\ snap.as \in {"header", "block"} => Dest = snap.prev

\* C9, amended: reading a header or block from a stream cut short ends in
\* an error, never in success; the destination is filled in place, so when
\* the error is raised every field whose bytes lie wholly before the cut
\* holds the value from the stream and every field after the one the stream
\* ended in holds its previous value.
C9_FailsFilledInPlace ==
    CutRead =>
        LET lay == IF snap.as = "header" THEN HeaderLayout ELSE BlockLayout
            n == Len(snap.wire)
        IN  /\ op = "read failed" /\ ret = FALSE
            /\ \A i \in 1..Len(lay) :
                  LET f == lay[i][1]
                  IN  /\ EndOf(snap.sent, lay, i) <= n => Dest[f] = snap.sent[f]
                      /\ (i > 1 /\ EndOf(snap.sent, lay, i - 1) > n) =>
                            Dest[f] = snap.prev[f]
            /\ snap.as = "block" => blk.fChecked = snap.prev.fChecked

\* a block read failed inside vtx: the header part is the stream's, vfrt
\* the previous one
C9_Witness ==
    /\ op = "read failed" /\ snap.as = "block" /\ snap.kind = "block"
    /\ \A f \in HeaderFields : blk[f] = FullHeader[f]
    /\ blk.vfrt = PriorBlock.vfrt
    /\ snap.sent.vfrt # <<>>

\* the record just read, encoded again with the parameters of the read
Again ==
    IF snap.as = "header" THEN SerHeader(hdr)
    ELSE IF snap.as = "block" THEN SerBlock(blk)
    ELSE SerLocator(loc, snap.rType, snap.rVersion)

\* a record was written and one of the same kind (for a locator, in the
\* same mode) read from the whole stream
WholeRead ==
    /\ op \in {"read ok", "read failed"}
    /\ snap.as = snap.kind
    /\ snap.wire = snap.bytes
    /\ snap.as = "locator" => (snap.rType \in {4, 5, 6, 7}) = (snap.nType \in {4, 5, 6, 7})

SerializedFields ==
    IF snap.as = "header" THEN HeaderFields
    ELSE IF snap.as = "block" THEN HeaderFields \cup {"vtx", "vfrt"}
    ELSE {"vHave"}

\* decode(encode(r)) = r on the serialized fields; fChecked is not written
\* and not read
DecodeOfEncode ==
    /\ WholeRead =>
          /\ op = "read ok" /\ stream = <<>>
          /\ \A f \in SerializedFields : Dest[f] = snap.sent[f]
          /\ snap.as = "block" => blk.fChecked = snap.prev.fChecked
    /\ op = "written" /\ snap.kind = "block" =>
          /\ stream = SerBlock([snap.sent EXCEPT !.fChecked = ~@])
          /\ Len(stream) = EndOf(snap.sent, BlockLayout, Len(BlockLayout))

\* C10 as stated: decode(encode(r)) = r, and for every byte string b that
\* decodes, encode(decode(b)) = b, for headers, blocks and locators.
C10_RoundTrip ==
    /\ DecodeOfEncode
    /\ op = "read ok" => Again \o stream = snap.wire

\* C10, amended: decode(encode(r)) = r on the serialized fields (fChecked
\* adds no bytes), and encode(decode(b)) = b for headers, for blocks and for
\* locators in hash mode; in the other modes a locator keeps no version, the
\* encoder writes the nVersion it is given, and encode(decode(b)) = b exactly
\* when that is b's version field: the digests after it always come back.
C10_RoundTripButLocatorVersion ==
    /\ DecodeOfEncode
    /\ op = "read ok" =>
          IF snap.as = "locator" /\ snap.rType \notin {4, 5, 6, 7}
          THEN /\ (Again \o stream = snap.wire)
                     <=> (LittleEndian(snap.wire, 1) = snap.rVersion)
               /\ SerLocator(loc, SER_GETHASH, 0) \o stream
                     = SubSeq(snap.wire, 5, Len(snap.wire))
          ELSE Again \o stream = snap.wire

\* a locator was read in network mode from bytes with another version than
\* the one given to the call
C10_Witness ==
    /\ op = "read ok" /\ snap.as = "locator" /\ snap.rType = SER_NETWORK
    /\ loc.vHave # <<>>
    /\ LittleEndian(snap.wire, 1) # snap.rVersion
    /\ stream = <<>>

=============================================================================
